---- MODULE Spec2Model ----
(***************************************************************************)
(* AmFIBia: the task builder (MainWindow.build_task_list), the milling     *)
(* orchestrator (MainWindow.run, MainWindow.stop_milling) and the          *)
(* alignment engine (fibsem.align), and the pattern editor of the image    *)
(* widget (DrawableImage) with the handlers of MainWindow it calls.        *)
(*                                                                         *)
(* Positions and tasks are numbered from 1 here (the source counts from    *)
(* 0).  In the position list a PatternGroup's pattern mapping is           *)
(* represented by its size; the editor follows the mappings of the         *)
(* position shown in the image widget as sets of pattern ids.              *)
(***************************************************************************)
EXTENDS Integers, Sequences, FiniteSets, TLC

\* ------------------------------------------------------------------ bounds
MaxPositions == 2
MaxGroups == 3
MaxTasks == 2
MaxSeq == 1
MaxPatterns == 1
MaxCoords == 2
MaxRuns == 2
MaxEditGroups == 2
MaxIds == 2
MaxUndoLevels == 2
MaxDepth == 3
MaxFov == 4
MaxImage == 3
MaxScale == 2
MaxCurrents == 2

\* ------------------------------------------------------- program constants
MAX_DELAY_NO_HOME == 300
MODE == "scope"

Statuses == {"pending", "busy", "done", "failed"}
Coords == 1..MaxCoords
DelayValues == {0, MAX_DELAY_NO_HOME, MAX_DELAY_NO_HOME + 1}
\* _get_available_currents: "Not set" (0.0) and then the currents of the
\* instrument, sorted; a current is modelled by its index in that list.
NOT_SET == 0
available_currents == NOT_SET..MaxCurrents

VARIABLES
    positions,        \* the position list: the data of every item, in order
    task_list,        \* the task list of the current (or last) run
    task_idx,         \* index of the task the loop of run is at
    pc,               \* where run is
    milling_stopped,  \* self._milling_stopped
    patterns_locked,  \* the image widget's shapes are loaded locked
    controls_enabled, \* milling controls enabled, run button reads "Run"
    saved_state,      \* the positions as last written by save_state
    run_result,       \* how the last call of run was left
    runs,             \* number of calls of run so far
    hw_log,           \* hardware actions issued for the current task, and which returned success
    step_failed,      \* per task: one of its steps reported failure
    stop_in_delay,    \* task during whose delay sleep the stop flag was set
    cancelled_busy,   \* groups that were busy when cancellation was acted upon
    stage_aligned_at, \* coordinates at which the coarse alignment succeeded; 0 once the stage moved
    \* one call of fibsem.align
    a_pc,             \* where align is
    a_matcher,        \* the matcher of the call: "zero" always reports confidence 0.0
    a_reduced,        \* reduced_area is not None
    a_reset,          \* reset_beam_shift
    a_conf,           \* l.confidence of the last match, in hundredths
    a_dist,           \* distance of the last match, in picometres
    a_move_count,     \* move_count
    a_captures,       \* calls of take_image_IB so far
    a_corrections,    \* stage moves and beam shifts issued so far
    a_result,         \* what the call returned
    a_fault,          \* a driver call failed or the image sizes differ by more than 1
    a_size_diff,      \* pixels by which the last capture differs in size from the reference
    a_save_failed,    \* a call of current_img.save has raised
    a_step_ops,       \* the driver calls that returned in the last pass of the loop body
    \* the image widget and the data of the position it shows
    group_patterns,        \* the PatternGroup objects created so far: the ids of pg.patterns
    patterns_list,         \* data["patterns"] of the current item: PatternGroup objects
    polygons_img,          \* DrawableImage.polygons_img
    selected_polygon_ids,  \* DrawableImage.selected_polygon_ids
    undo_stack,            \* DrawableImage.undo_stack
    last_op,               \* the operator event handled last, and whether it took effect
    \* one call of a function without state
    call_args,             \* the arguments of the call
    call_result            \* what the call gave; done is FALSE before the call

runVars == <<positions, task_list, task_idx, pc, milling_stopped, patterns_locked,
             controls_enabled, saved_state, run_result, runs, hw_log, step_failed,
             stop_in_delay, cancelled_busy, stage_aligned_at>>

alignVars == <<a_pc, a_matcher, a_reduced, a_reset, a_conf, a_dist, a_move_count,
               a_captures, a_corrections, a_result, a_fault, a_size_diff, a_save_failed,
               a_step_ops>>

editVars == <<group_patterns, patterns_list, polygons_img, selected_polygon_ids,
              undo_stack, last_op>>

callVars == <<call_args, call_result>>

vars == <<runVars, alignVars, editVars, callVars>>

\* What a handler of one part leaves alone.
notRunVars == <<alignVars, editVars, callVars>>
notAlignVars == <<runVars, editVars, callVars>>
notEditVars == <<runVars, alignVars, callVars>>
notCallVars == <<runVars, alignVars, editVars>>

\* --------------------------------------------------------------- data model
PatternGroupsOf(statuses, delays) ==
    [sequential_group : 0..MaxSeq, npatterns : 0..MaxPatterns,
     milled_status : statuses, delay : delays, milling_current : available_currents]

\* Patterns can only be attached to a position that has an image
\* (attach_xT_pattern, _load_pattern_file); add_position leaves image None.
\* A shape gives the number of groups of each position of a list: at most n
\* positions of kmin groups or more each, with at most g groups in all.
RECURSIVE SumOf(_, _)
SumOf(ks, i) == IF i = 0 THEN 0 ELSE ks[i] + SumOf(ks, i - 1)

Shapes(kmin, n, g) ==
    UNION { { ks \in [1..m -> kmin..g] : SumOf(ks, m) <= g } : m \in 0..n }

\* The position list of shape ks whose positions have the images imgs and the
\* coordinates cs, and whose groups are those of gs in order.
PositionList(ks, imgs, cs, gs) ==
    [i \in 1..Len(ks) |->
        [image    |-> imgs[i],
         coords   |-> cs[i],
         patterns |-> [j \in 1..ks[i] |-> gs[SumOf(ks, i - 1) + j]]]]

\* positions is a list of at most n positions with groups taken from GS and
\* coordinates from CS.
PositionsIn(GS, CS, kmin, n, g) ==
    \E ks \in Shapes(kmin, n, g) :
        \E imgs \in [1..Len(ks) -> BOOLEAN], cs \in [1..Len(ks) -> CS],
           gs \in [1..SumOf(ks, Len(ks)) -> GS] :
            /\ \A i \in 1..Len(ks) : ks[i] > 0 => imgs[i]
            /\ positions = PositionList(ks, imgs, cs, gs)

GroupIds(ps) == UNION { { <<i, j>> : j \in 1..Len(ps[i].patterns) } : i \in 1..Len(ps) }

Group(ps, id) == ps[id[1]].patterns[id[2]]

SetStatus(ps, id, s) ==
    [ps EXCEPT ![id[1]].patterns[id[2]].milled_status = s]

TaskGroup(t) == <<t.position_index, t.group>>

\* ----------------------------------------------------------- build_task_list
Max(a, b) == IF a >= b THEN a ELSE b

RECURSIVE MaxSeqOfGroups(_, _)
MaxSeqOfGroups(gs, j) ==
    IF j > Len(gs) THEN 0
    ELSE Max(gs[j].sequential_group, MaxSeqOfGroups(gs, j + 1))

RECURSIVE max_sequential_group(_, _)
max_sequential_group(ps, i) ==
    IF i > Len(ps) THEN 0
    ELSE Max(MaxSeqOfGroups(ps[i].patterns, 1), max_sequential_group(ps, i + 1))

EligibleIgnoringEmpty(pg, sg) ==
    /\ pg.sequential_group = sg
    /\ pg.milled_status = "pending"

EligibleOrFailed(pg, sg) ==
    /\ pg.sequential_group = sg
    /\ pg.npatterns # 0
    /\ pg.milled_status \in {"pending", "failed"}

Eligible(pg, sg) ==
    /\ pg.sequential_group = sg
    /\ pg.npatterns # 0
    /\ pg.milled_status = "pending"

NewTask(ps, i, j, sg) ==
    [position_index |-> i, group |-> j, sequential_group |-> sg,
     coords |-> ps[i].coords, move_successful |-> FALSE]

RECURSIVE GroupTasks(_, _, _, _)
GroupTasks(ps, i, sg, j) ==
    IF j > Len(ps[i].patterns) THEN <<>>
    ELSE (IF Eligible(ps[i].patterns[j], sg) THEN <<NewTask(ps, i, j, sg)>> ELSE <<>>)
         \o GroupTasks(ps, i, sg, j + 1)

RECURSIVE PositionTasks(_, _, _)
PositionTasks(ps, sg, i) ==
    IF i > Len(ps) THEN <<>>
    ELSE GroupTasks(ps, i, sg, 1) \o PositionTasks(ps, sg, i + 1)

RECURSIVE TierTasks(_, _, _)
TierTasks(ps, sg, maxsg) ==
    IF sg > maxsg THEN <<>>
    ELSE PositionTasks(ps, sg, 1) \o TierTasks(ps, sg + 1, maxsg)

\* The same with the two loops exchanged: positions outside, tiers inside.
RECURSIVE TiersOfPosition(_, _, _, _)
TiersOfPosition(ps, i, sg, maxsg) ==
    IF sg > maxsg THEN <<>>
    ELSE GroupTasks(ps, i, sg, 1) \o TiersOfPosition(ps, i, sg + 1, maxsg)

RECURSIVE PositionMajorTasks(_, _, _)
PositionMajorTasks(ps, i, maxsg) ==
    IF i > Len(ps) THEN <<>>
    ELSE TiersOfPosition(ps, i, 0, maxsg) \o PositionMajorTasks(ps, i + 1, maxsg)

build_task_list_by_position(ps) == PositionMajorTasks(ps, 1, max_sequential_group(ps, 1))

build_task_list(ps) == TierTasks(ps, 0, max_sequential_group(ps, 1))

\* The tier loop runs at least once and reads data["image"].metadata of every
\* position before it looks at the position's groups.
build_task_list_raises(ps) == \E i \in 1..Len(ps) : ~ps[i].image

\* ------------------------------------------------------- shapes of the widget
RECURSIVE IdsInOrder(_)
IdsInOrder(ids) ==
    IF ids = {} THEN <<>>
    ELSE LET m == CHOOSE x \in ids : \A y \in ids : x <= y
         IN  <<m>> \o IdsInOrder(ids \ {m})

RECURSIVE GroupShapes(_, _, _)
GroupShapes(g, ids, locked) ==
    IF ids = <<>> THEN <<>>
    ELSE <<[id |-> Head(ids), pattern_group |-> g, locked |-> locked]>>
         \o GroupShapes(g, Tail(ids), locked)

\* DrawableImage.load_shapes: one polygon for every pattern of every group.
RECURSIVE load_shapes(_, _, _)
load_shapes(shapes, heap, locked) ==
    IF shapes = <<>> THEN <<>>
    ELSE GroupShapes(Head(shapes), IdsInOrder(heap[Head(shapes)]), locked)
         \o load_shapes(Tail(shapes), heap, locked)

\* _lock_all_patterns: the shapes of the current item are loaded again, all
\* locked or all unlocked; load_shapes clears the selection.  The current item
\* during a run is the position of the task (on_item_clicked at the head of
\* the iteration), which is the position the widget shows.
lock_all_patterns(locked) ==
    /\ polygons_img' = load_shapes(patterns_list, group_patterns, locked)
    /\ selected_polygon_ids' = {}
    /\ UNCHANGED <<group_patterns, patterns_list, undo_stack, last_op>>

\* ------------------------------------------------------------------- run
RunResults == {"none", "running", "no_tasks", "rejected", "raised_build", "raised_setup",
               "raising", "raised_loop", "complete"}

AlignResults == {"true", "false", "raise"}

CurTask == task_list[task_idx]
CurGroup == TaskGroup(CurTask)

\* `continue` and `break` of the task loop, as the next place of run.
ContinueAsBreak(idx) == [pc |-> "cleanup", task_idx |-> idx]

Continue(idx) == [pc |-> "loop", task_idx |-> idx + 1]

BreakAsContinue(idx) == [pc |-> "loop", task_idx |-> idx + 1]

Break(idx) == [pc |-> "cleanup", task_idx |-> idx]

MarkBusySkipped(ps, id) == ps

MarkBusy(ps, id) == SetStatus(ps, id, "busy")

\* The same decision without the look at the previous task's move.
move_and_align_by_coords(tl, idx) ==
    \/ idx = 1
    \/ /\ idx > 1
       /\ tl[idx - 1].coords # tl[idx].coords

\* True when the stage has to be moved and the full frame aligned for task idx.
move_and_align(tl, idx) ==
    \/ idx = 1
    \/ /\ idx > 1
       /\ \/ tl[idx - 1].coords # tl[idx].coords
          \/ ~tl[idx - 1].move_successful

Issue(op) == hw_log \cup {op}

\* The call op was issued and has returned; ok_mark is logged when it returned success.
Returned(op, ok_mark, ok) == Issue(op) \cup (IF ok THEN {ok_mark} ELSE {})

\* run, up to the confirmation dialog: save_state, build_task_list, the
\* "No Tasks" message.
Run ==
    /\ pc = "idle"
    /\ controls_enabled
    /\ runs < MaxRuns
    /\ runs' = runs + 1
    /\ saved_state' = positions
    /\ hw_log' = {}
    /\ stop_in_delay' = 0
    /\ task_idx' = 0
    /\ IF build_task_list_raises(positions)
       THEN /\ task_list' = <<>>
            /\ run_result' = "raised_build"
            /\ pc' = "idle"
       ELSE /\ task_list' = build_task_list(positions)
            /\ IF Len(task_list') = 0
               THEN run_result' = "no_tasks" /\ pc' = "idle"
               ELSE run_result' = "running" /\ pc' = "dialog"
    /\ step_failed' = [i \in 1..Len(task_list') |-> FALSE]
    /\ UNCHANGED <<positions, milling_stopped, patterns_locked, controls_enabled, cancelled_busy>>
    /\ UNCHANGED stage_aligned_at
    /\ UNCHANGED notRunVars

DialogReject ==
    /\ pc = "dialog"
    /\ pc' = "idle"
    /\ run_result' = "rejected"
    /\ UNCHANGED <<positions, task_list, task_idx, milling_stopped, patterns_locked,
                   controls_enabled, saved_state, runs, hw_log, step_failed, stop_in_delay,
                   cancelled_busy>>
    /\ UNCHANGED stage_aligned_at
    /\ UNCHANGED notRunVars

\* MillingConfirmDialog._validate_currents: "Start Milling" is enabled only
\* while the group of every task has a current other than 0.
validate_currents(tl, ps) ==
    \A k \in 1..Len(tl) : Group(ps, TaskGroup(tl[k])).milling_current # NOT_SET

\* The dialog is accepted: lock the patterns, swap Run for Stop, reset the flag.
DialogAccept ==
    /\ pc = "dialog"
    /\ validate_currents(task_list, positions)
    /\ patterns_locked' = TRUE
    /\ controls_enabled' = FALSE
    /\ milling_stopped' = FALSE
    /\ task_idx' = 1
    /\ pc' = "setup"
    /\ lock_all_patterns(TRUE)
    /\ UNCHANGED <<positions, task_list, saved_state, run_result, runs, hw_log, step_failed,
                   stop_in_delay, cancelled_busy>>
    /\ UNCHANGED stage_aligned_at
    /\ UNCHANGED <<alignVars, callVars>>

\* The three reads of the scan settings stand before the try statement: a read
\* that raises leaves run with the lock taken.
ReadScanSettings ==
    /\ pc = "setup"
    /\ \E ok \in BOOLEAN :
         IF ok THEN pc' = "loop" /\ run_result' = run_result
         ELSE pc' = "idle" /\ run_result' = "raised_setup"
    /\ UNCHANGED <<positions, task_list, task_idx, milling_stopped, patterns_locked,
                   controls_enabled, saved_state, runs, hw_log, step_failed, stop_in_delay,
                   cancelled_busy>>
    /\ UNCHANGED stage_aligned_at
    /\ UNCHANGED notRunVars

\* Head of one iteration: the stop check, then select the position, re-lock,
\* mark busy and refresh.
LoopTop ==
    /\ pc = "loop"
    /\ IF task_idx > Len(task_list)
       THEN /\ pc' = "cleanup"
            /\ UNCHANGED <<positions, task_idx, patterns_locked, editVars>>
       ELSE IF milling_stopped
       THEN /\ positions' = SetStatus(positions, CurGroup, "failed")
            /\ pc' = Break(task_idx).pc
            /\ task_idx' = Break(task_idx).task_idx
            /\ UNCHANGED <<patterns_locked, editVars>>
       ELSE /\ positions' = MarkBusy(positions, CurGroup)
            /\ patterns_locked' = TRUE
            /\ lock_all_patterns(TRUE)
            /\ pc' = "delay"
            /\ UNCHANGED task_idx
    /\ hw_log' = {}
    /\ UNCHANGED <<task_list, milling_stopped, controls_enabled, saved_state, run_result,
                   runs, step_failed, stop_in_delay, cancelled_busy>>
    /\ UNCHANGED stage_aligned_at
    /\ UNCHANGED <<alignVars, callVars>>

\* The delay of the task's group: sleep mode for a long delay, then the sleep.
EnterDelay ==
    /\ pc = "delay"
    /\ LET delay == Group(positions, CurGroup).delay IN
         IF delay > 0
         THEN /\ hw_log' = IF delay > MAX_DELAY_NO_HOME
                           THEN Issue("sleep_mode") ELSE hw_log
              /\ stage_aligned_at' = IF delay > MAX_DELAY_NO_HOME THEN 0 ELSE stage_aligned_at
              /\ pc' = "sleeping"
         ELSE /\ pc' = "prepare"
              /\ UNCHANGED <<hw_log, stage_aligned_at>>
    /\ UNCHANGED <<positions, task_list, task_idx, milling_stopped, patterns_locked,
                   controls_enabled, saved_state, run_result, runs, step_failed,
                   stop_in_delay, cancelled_busy>>
    /\ UNCHANGED notRunVars

\* time.sleep returns: the stop check after the sleep.
AfterSleep ==
    /\ pc = "sleeping"
    /\ IF milling_stopped
       THEN /\ positions' = SetStatus(positions, CurGroup, "failed")
            /\ cancelled_busy' = cancelled_busy \cup {[group |-> CurGroup, run |-> runs]}
            /\ pc' = Break(task_idx).pc
            /\ task_idx' = Break(task_idx).task_idx
       ELSE /\ pc' = "prepare"
            /\ UNCHANGED <<positions, cancelled_busy, task_idx>>
    /\ UNCHANGED <<task_list, milling_stopped, patterns_locked, controls_enabled,
                   saved_state, run_result, runs, hw_log, step_failed, stop_in_delay>>
    /\ UNCHANGED stage_aligned_at
    /\ UNCHANGED notRunVars

\* ion_on, set_image_conditions_IB, set_full_frame_IB (driver calls with no
\* handler of their own), then the decision whether to move and align.
PrepareBeam ==
    /\ pc = "prepare"
    /\ \E ok \in BOOLEAN :
         IF ~ok
         THEN /\ pc' = "cleanup"
              /\ run_result' = "raising"
              /\ UNCHANGED task_list
         ELSE /\ run_result' = run_result
              /\ IF move_and_align(task_list, task_idx)
                 THEN pc' = "move" /\ UNCHANGED task_list
                 ELSE /\ pc' = "fine"
                      /\ task_list' = [task_list EXCEPT ![task_idx].move_successful = TRUE]
    /\ UNCHANGED <<positions, task_idx, milling_stopped, patterns_locked, controls_enabled,
                   saved_state, runs, hw_log, step_failed, stop_in_delay, cancelled_busy>>
    /\ UNCHANGED stage_aligned_at
    /\ UNCHANGED notRunVars

MoveStage ==
    /\ pc = "move"
    /\ hw_log' = Issue("move")
    /\ stage_aligned_at' = 0
    /\ \E stage_moved \in BOOLEAN :
         IF ~stage_moved
         THEN /\ positions' = SetStatus(positions, CurGroup, "failed")
              /\ step_failed' = [step_failed EXCEPT ![task_idx] = TRUE]
              /\ pc' = Continue(task_idx).pc
              /\ task_idx' = Continue(task_idx).task_idx
              /\ UNCHANGED task_list
         ELSE /\ task_list' = [task_list EXCEPT ![task_idx].move_successful = TRUE]
              /\ pc' = "coarse"
              /\ UNCHANGED <<positions, step_failed, task_idx>>
    /\ UNCHANGED <<milling_stopped, patterns_locked, controls_enabled, saved_state,
                   run_result, runs, stop_in_delay, cancelled_busy>>
    /\ UNCHANGED notRunVars

\* The same without the check of the result: a failed alignment goes on to
\* the next step.
AfterAlignResultIgnored(aligned, next) ==
    IF aligned = "raise"
    THEN /\ pc' = "cleanup"
         /\ run_result' = "raising"
         /\ UNCHANGED <<positions, step_failed, task_idx, cancelled_busy>>
    ELSE IF milling_stopped
    THEN /\ positions' = SetStatus(positions, CurGroup, "failed")
         /\ cancelled_busy' = cancelled_busy \cup {[group |-> CurGroup, run |-> runs]}
         /\ pc' = Break(task_idx).pc
         /\ task_idx' = Break(task_idx).task_idx
         /\ UNCHANGED <<step_failed, run_result>>
    ELSE /\ pc' = next
         /\ UNCHANGED <<positions, step_failed, task_idx, cancelled_busy, run_result>>

\* What follows a call of scope.align in run: the stop check, then the result.
AfterAlign(aligned, next) ==
    IF aligned = "raise"
    THEN /\ pc' = "cleanup"
         /\ run_result' = "raising"
         /\ UNCHANGED <<positions, step_failed, task_idx, cancelled_busy>>
    ELSE IF milling_stopped
    THEN /\ positions' = SetStatus(positions, CurGroup, "failed")
         /\ cancelled_busy' = cancelled_busy \cup {[group |-> CurGroup, run |-> runs]}
         /\ pc' = Break(task_idx).pc
         /\ task_idx' = Break(task_idx).task_idx
         /\ UNCHANGED <<step_failed, run_result>>
    ELSE IF aligned = "false"
    THEN /\ positions' = SetStatus(positions, CurGroup, "failed")
         /\ step_failed' = [step_failed EXCEPT ![task_idx] = TRUE]
         /\ pc' = Continue(task_idx).pc
         /\ task_idx' = Continue(task_idx).task_idx
         /\ UNCHANGED <<cancelled_busy, run_result>>
    ELSE /\ pc' = next
         /\ UNCHANGED <<positions, step_failed, task_idx, cancelled_busy, run_result>>

\* Low-current alignment on the full image.
CoarseAlign ==
    /\ pc = "coarse"
    /\ \E aligned_low_current \in AlignResults :
         /\ hw_log' = Returned("align_coarse", "align_coarse_ok", aligned_low_current = "true")
         /\ stage_aligned_at' = IF aligned_low_current = "true" THEN CurTask.coords
                                ELSE stage_aligned_at
         /\ AfterAlign(aligned_low_current, "fine")
    /\ UNCHANGED <<task_list, milling_stopped, patterns_locked, controls_enabled,
                   saved_state, runs, stop_in_delay>>
    /\ UNCHANGED notRunVars

\* Alignment at the milling current on the tracking area.
FineAlign ==
    /\ pc = "fine"
    /\ \E aligned_milling_current \in AlignResults :
         /\ hw_log' = Returned("align_fine", "align_fine_ok", aligned_milling_current = "true")
         /\ AfterAlign(aligned_milling_current, "mill")
    /\ UNCHANGED <<task_list, milling_stopped, patterns_locked, controls_enabled,
                   saved_state, runs, stop_in_delay>>
    /\ UNCHANGED stage_aligned_at
    /\ UNCHANGED notRunVars

DoMilling ==
    /\ pc = "mill"
    /\ \E milled \in BOOLEAN :
       /\ hw_log' = Returned("mill", "mill_ok", milled)
       /\
         IF ~milled
         THEN /\ positions' = SetStatus(positions, CurGroup, "failed")
              /\ step_failed' = [step_failed EXCEPT ![task_idx] = TRUE]
              /\ pc' = Continue(task_idx).pc
              /\ task_idx' = Continue(task_idx).task_idx
              /\ UNCHANGED cancelled_busy
         ELSE IF milling_stopped
         THEN /\ positions' = SetStatus(positions, CurGroup, "failed")
              /\ cancelled_busy' = cancelled_busy \cup {[group |-> CurGroup, run |-> runs]}
              /\ pc' = Break(task_idx).pc
              /\ task_idx' = Break(task_idx).task_idx
              /\ UNCHANGED step_failed
         ELSE /\ positions' = SetStatus(positions, CurGroup, "done")
              /\ pc' = "loop"
              /\ task_idx' = task_idx + 1
              /\ UNCHANGED <<step_failed, cancelled_busy>>
    /\ UNCHANGED <<task_list, milling_stopped, patterns_locked, controls_enabled,
                   saved_state, run_result, runs, stop_in_delay>>
    /\ UNCHANGED stage_aligned_at
    /\ UNCHANGED notRunVars

\* The finally block: unlock, re-enable, refresh, save_state.  The restore of
\* the scan settings comes last and changes none of the variables.
Cleanup ==
    /\ pc = "cleanup"
    /\ patterns_locked' = FALSE
    /\ controls_enabled' = TRUE
    /\ saved_state' = positions
    /\ pc' = "idle"
    /\ run_result' = IF run_result = "raising" THEN "raised_loop" ELSE "complete"
    /\ lock_all_patterns(FALSE)
    /\ UNCHANGED <<positions, task_list, task_idx, milling_stopped, runs, hw_log,
                   step_failed, stop_in_delay, cancelled_busy>>
    /\ UNCHANGED stage_aligned_at
    /\ UNCHANGED <<alignVars, callVars>>

\* The Stop button (the run button while the controls are disabled).
stop_milling ==
    /\ ~controls_enabled
    /\ ~milling_stopped
    /\ milling_stopped' = TRUE
    /\ stop_in_delay' = IF pc = "sleeping" THEN task_idx ELSE stop_in_delay
    /\ UNCHANGED <<positions, task_list, task_idx, pc, patterns_locked, controls_enabled,
                   saved_state, run_result, runs, hw_log, step_failed, cancelled_busy>>
    /\ UNCHANGED stage_aligned_at
    /\ UNCHANGED notRunVars

\* ------------------------------------------------- operator status changes
\* The status dropdown of the group properties table (on_pattern_selected)
\* offers these; "(mixed)" is added when the selected groups differ.
status_options_with_busy == Statuses

status_options == {"pending", "done", "failed"}

\* What the context menu of the position list passes to _mark_position_status.
menu_statuses == {"done", "pending"}

SetStatuses(ps, i, S, s) ==
    [ps EXCEPT ![i].patterns =
        [j \in 1..Len(@) |-> IF j \in S THEN [@[j] EXCEPT !.milled_status = s] ELSE @[j]]]

\* _on_status_changed: the dropdown's text is written to every selected group
\* of the shown position, unless it is "(mixed)".  The table stays enabled
\* during a run.
on_status_changed ==
    \E i \in 1..Len(positions) :
        \E S \in (SUBSET (1..Len(positions[i].patterns))) \ {{}} :
            LET mixed == \E j, k \in S : positions[i].patterns[j].milled_status
                                          # positions[i].patterns[k].milled_status
            IN  \E new_status \in status_options \cup (IF mixed THEN {"(mixed)"} ELSE {}) :
                    /\ positions' = IF new_status = "(mixed)" THEN positions
                                    ELSE SetStatuses(positions, i, S, new_status)
                    /\ UNCHANGED <<task_list, task_idx, pc, milling_stopped, patterns_locked,
                                   controls_enabled, saved_state, run_result, runs, hw_log,
                                   step_failed, stop_in_delay, cancelled_busy>>
                    /\ UNCHANGED stage_aligned_at
                    /\ UNCHANGED notRunVars

\* _mark_position_status from the context menu ("Mark as finished", "Mark as
\* pending"): every group of the position gets the status.  The list stays
\* enabled during a run.
mark_position_status ==
    \E i \in 1..Len(positions), status \in menu_statuses :
        /\ positions' = SetStatuses(positions, i, 1..Len(positions[i].patterns), status)
        /\ UNCHANGED <<task_list, task_idx, pc, milling_stopped, patterns_locked,
                       controls_enabled, saved_state, run_result, runs, hw_log,
                       step_failed, stop_in_delay, cancelled_busy>>
        /\ UNCHANGED stage_aligned_at
        /\ UNCHANGED notRunVars

\* ----------------------------------------------------------------- align
\* MIN_ALIGNMENT_DISTANCE = 82.9e-06/3072/2 m = 13492.8 pm: a whole number of
\* picometres is below it exactly when it is below 13493.
MIN_ALIGNMENT_DISTANCE == 13493
STAGE_MOVE_DISTANCE == 10000000
CONFIDENCE_THRESHOLD == 98
MAX_MOVE_COUNT == 5

\* A call can take one capture more than MAX_MOVE_COUNT; the model stops a
\* call that would go beyond CaptureCap captures.
CaptureCap == 8

ConfValues == {0, CONFIDENCE_THRESHOLD - 1, CONFIDENCE_THRESHOLD}
DistValues == {0, MIN_ALIGNMENT_DISTANCE - 1, MIN_ALIGNMENT_DISTANCE,
               STAGE_MOVE_DISTANCE, STAGE_MOVE_DISTANCE + 1}
\* Difference in pixels between the live image and the reference, per capture.
SizeDiffs == {0, 1, 2}

Confidences(m) == IF m = "zero" THEN {0} ELSE ConfValues

\* `while l.confidence < 0.98 and move_count < 5`
LoopGuardNoBudget(conf, move_count) == conf < CONFIDENCE_THRESHOLD

LoopGuard(conf, move_count) ==
    conf < CONFIDENCE_THRESHOLD /\ move_count < MAX_MOVE_COUNT

\* The same with the stage used from 10 micrometres on.
CorrectionStageFromThreshold(distance) ==
    IF distance < MIN_ALIGNMENT_DISTANCE THEN "none"
    ELSE IF distance >= STAGE_MOVE_DISTANCE THEN "stage"
    ELSE "beam"

\* The correction chosen for a residual distance.
Correction(distance) ==
    IF distance < MIN_ALIGNMENT_DISTANCE THEN "none"
    ELSE IF distance > STAGE_MOVE_DISTANCE THEN "stage"
    ELSE "beam"

\* The driver calls of a correction, in order.
CorrectionOps(kind) ==
    IF kind = "stage" THEN <<"relative_move", "beam_shift_reset">>
    ELSE IF kind = "beam" THEN <<"beam_shift_add">>
    ELSE <<>>

\* `except Exception: return False`
AlignFails ==
    /\ a_pc' = "returned"
    /\ a_result' = "false"
    /\ a_fault' = TRUE

\* The call: os.mkdir of the output directory stands before the try statement.
AlignCall ==
    /\ a_pc = "idle"
    /\ a_matcher' \in {"zero", "any"}
    /\ a_reduced' \in BOOLEAN
    /\ a_reset' \in BOOLEAN
    /\ a_move_count' = 0
    /\ a_captures' = 0
    /\ a_corrections' = 0
    /\ a_conf' = 0
    /\ a_dist' = 0
    /\ a_size_diff' = 0
    /\ a_save_failed' = FALSE
    /\ a_step_ops' = <<>>
    /\ \E dir_ok \in BOOLEAN :
         IF dir_ok THEN a_pc' = "init" /\ a_result' = "none" /\ a_fault' = FALSE
         ELSE a_pc' = "returned" /\ a_result' = "raise" /\ a_fault' = TRUE
    /\ UNCHANGED notAlignVars

\* Active view, beam current, reduced area, beam shift reset, auto contrast.
AlignInit ==
    /\ a_pc = "init"
    /\ \E ok \in BOOLEAN :
         IF ok THEN a_pc' = "capture" /\ UNCHANGED <<a_result, a_fault>>
         ELSE AlignFails
    /\ UNCHANGED <<a_matcher, a_reduced, a_reset, a_conf, a_dist, a_move_count,
                   a_captures, a_corrections, a_size_diff, a_save_failed, a_step_ops>>
    /\ UNCHANGED notAlignVars

\* The first capture, _adjust_template_size, locate_feature, save.
FirstCapture ==
    /\ a_pc = "capture"
    /\ a_captures' = a_captures + 1
    /\ \E captured \in BOOLEAN, diff \in SizeDiffs, saved \in BOOLEAN :
         /\ a_size_diff' = IF captured THEN diff ELSE a_size_diff
         /\ a_save_failed' = (captured /\ diff <= 1 /\ ~saved)
         /\ IF ~captured \/ diff > 1 \/ ~saved
            THEN AlignFails /\ UNCHANGED <<a_conf, a_dist>>
            ELSE /\ a_conf' \in Confidences(a_matcher)
                 /\ a_dist' \in DistValues
                 /\ a_pc' = "loop"
                 /\ UNCHANGED <<a_result, a_fault>>
    /\ UNCHANGED <<a_matcher, a_reduced, a_reset, a_move_count, a_corrections, a_step_ops>>
    /\ UNCHANGED notAlignVars

\* The loop test and, inside the loop, the correction and move_count += 1.
LoopStep ==
    /\ a_pc = "loop"
    /\ IF LoopGuard(a_conf, a_move_count)
       THEN IF Correction(a_dist) = "none"
            THEN /\ a_pc' = "finish"
                 /\ a_step_ops' = <<>>
                 /\ UNCHANGED <<a_move_count, a_corrections, a_result, a_fault>>
            ELSE LET ops == CorrectionOps(Correction(a_dist))
                 IN  \E returned \in 0..Len(ops) :
                       /\ a_step_ops' = SubSeq(ops, 1, returned)
                       /\ IF returned = Len(ops)
                          THEN /\ a_corrections' = a_corrections + 1
                               /\ a_move_count' = a_move_count + 1
                               /\ a_pc' = "recapture"
                               /\ UNCHANGED <<a_result, a_fault>>
                          ELSE AlignFails /\ UNCHANGED <<a_move_count, a_corrections>>
       ELSE /\ a_pc' = "finish"
            /\ UNCHANGED <<a_move_count, a_corrections, a_result, a_fault, a_step_ops>>
    /\ UNCHANGED <<a_matcher, a_reduced, a_reset, a_conf, a_dist, a_captures, a_size_diff,
                   a_save_failed>>
    /\ UNCHANGED notAlignVars

\* The matcher (src/CustomMatchers.py) gives an offset and a confidence for a
\* live image and a reference; it may also raise, whatever the two sizes are.
Located(diff) == BOOLEAN

\* The capture after a correction, save, locate_feature on the reference as
\* it was passed in; the sizes are not compared here.
Recapture ==
    /\ a_pc = "recapture"
    /\ a_captures < CaptureCap
    /\ a_captures' = a_captures + 1
    /\ \E captured \in BOOLEAN, diff \in SizeDiffs, saved \in BOOLEAN :
       \E located \in Located(diff) :
         /\ a_size_diff' = IF captured THEN diff ELSE a_size_diff
         /\ a_save_failed' = (captured /\ ~saved)
         /\ IF ~captured \/ ~saved \/ ~located
            THEN AlignFails /\ UNCHANGED <<a_conf, a_dist>>
            ELSE /\ a_conf' \in Confidences(a_matcher)
                 /\ a_dist' \in DistValues
                 /\ a_pc' = "loop"
                 /\ UNCHANGED <<a_result, a_fault>>
    /\ UNCHANGED <<a_matcher, a_reduced, a_reset, a_move_count, a_corrections, a_step_ops>>
    /\ UNCHANGED notAlignVars

\* After the loop: back to full frame when a reduced area was set, return True.
AlignFinish ==
    /\ a_pc = "finish"
    /\ \E ok \in BOOLEAN :
         IF a_reduced /\ ~ok THEN AlignFails
         ELSE a_pc' = "returned" /\ a_result' = "true" /\ UNCHANGED a_fault
    /\ UNCHANGED <<a_matcher, a_reduced, a_reset, a_conf, a_dist, a_move_count,
                   a_captures, a_corrections, a_size_diff, a_save_failed, a_step_ops>>
    /\ UNCHANGED notAlignVars

\* The caller has the result; the next call can start.
AlignReturn ==
    /\ a_pc = "returned"
    /\ a_pc' = "idle"
    /\ UNCHANGED <<a_matcher, a_reduced, a_reset, a_conf, a_dist, a_move_count,
                   a_captures, a_corrections, a_result, a_fault, a_size_diff, a_save_failed,
                   a_step_ops>>
    /\ UNCHANGED notAlignVars

\* ----------------------------------------------------------- pattern editor
\* The image widget shows one position that has an image.  A PatternGroup is
\* an object: the list of the position, the polygons and the snapshots of the
\* undo stack refer to it, and group_patterns[g] is the key set of g.patterns.
\* Pattern coordinates are not followed.
max_undo_levels == MaxUndoLevels

\* parse_pattern_file and convert_xT_patterns_to_displayable number the
\* patterns of a new group with enumerate: 0, 1, 2, ...
NewIds(n) == 0..(n - 1)

save_undo_state(stack, polys, sel) ==
    LET pushed == Append(stack, [polygons |-> polys, selected |-> sel])
    IN  IF Len(pushed) > max_undo_levels THEN Tail(pushed) ELSE pushed

ListedGroups(list) == { list[k] : k \in 1..Len(list) }

\* on_patterns_deleted: every group of the list loses the deleted ids, and the
\* groups left without patterns leave the list.
DeleteFromGroups(list, heap, deleted_ids) ==
    [g \in DOMAIN heap |->
        IF g \in ListedGroups(list) THEN heap[g] \ deleted_ids ELSE heap[g]]

NonEmptyGroups(list, heap) == SelectSeq(list, LAMBDA g : heap[g] # {})

\* on_undo: a polygon counts when its id, its pattern and its group are all
\* truthy, so a polygon with id 0 does not; a group with a counted polygon gets
\* the counted ids as its mapping.
RestoredIds(polys, g) ==
    { polys[k].id : k \in { k \in 1..Len(polys) :
                              polys[k].pattern_group = g /\ polys[k].id # 0 } }

RestoreGroups(polys, heap) ==
    [g \in DOMAIN heap |->
        IF RestoredIds(polys, g) # {} THEN RestoredIds(polys, g) ELSE heap[g]]

\* on_undo: the new list holds the group of every polygon, in order of first
\* appearance.
RECURSIVE GroupsOfPolygons(_, _)
GroupsOfPolygons(polys, seen_groups) ==
    IF polys = <<>> THEN <<>>
    ELSE LET pg == Head(polys).pattern_group
         IN  IF pg \in seen_groups THEN GroupsOfPolygons(Tail(polys), seen_groups)
             ELSE <<pg>> \o GroupsOfPolygons(Tail(polys), seen_groups \cup {pg})

\* attach_xT_pattern, _load_pattern_file: a new group of n patterns is
\* appended and the shapes are reloaded unlocked.  The button is disabled
\* during a run.
attach_pattern ==
    /\ controls_enabled
    /\ Len(group_patterns) < MaxEditGroups
    /\ \E n \in 0..MaxIds :
         /\ group_patterns' = Append(group_patterns, NewIds(n))
         /\ patterns_list' = Append(patterns_list, Len(group_patterns) + 1)
    /\ polygons_img' = load_shapes(patterns_list', group_patterns', FALSE)
    /\ selected_polygon_ids' = {}
    /\ last_op' = "attach"
    /\ UNCHANGED undo_stack
    /\ UNCHANGED notEditVars

\* on_item_clicked on the current item: the shapes are reloaded unlocked.
on_item_clicked ==
    /\ polygons_img' = load_shapes(patterns_list, group_patterns, FALSE)
    /\ selected_polygon_ids' = {}
    /\ last_op' = "click"
    /\ UNCHANGED <<group_patterns, patterns_list, undo_stack>>
    /\ UNCHANGED notEditVars

\* mousePressEvent with the left button on polygon k (0: outside every
\* polygon); the selection is a set of ids.  A press on an unlocked polygon
\* starts a drag and saves the state.
mousePressEvent ==
    \E k \in 0..Len(polygons_img), shift_held \in BOOLEAN :
        LET poly_id == polygons_img[k].id
            sel == IF k = 0
                   THEN (IF shift_held THEN selected_polygon_ids ELSE {})
                   ELSE IF shift_held
                        THEN (IF poly_id \in selected_polygon_ids
                              THEN selected_polygon_ids \ {poly_id}
                              ELSE selected_polygon_ids \cup {poly_id})
                        ELSE (IF poly_id \in selected_polygon_ids
                              THEN selected_polygon_ids ELSE {poly_id})
        IN  /\ selected_polygon_ids' = sel
            /\ undo_stack' = IF k # 0 /\ ~polygons_img[k].locked
                             THEN save_undo_state(undo_stack, polygons_img, sel)
                             ELSE undo_stack
            /\ last_op' = "press"
            /\ UNCHANGED <<group_patterns, patterns_list, polygons_img>>
            /\ UNCHANGED notEditVars

\* keyPressEvent, Backspace with patterns selected: the polygons with a
\* selected id go, whether locked or not, and on_patterns_deleted follows.
keyPressEvent_Backspace ==
    /\ selected_polygon_ids # {}
    /\ undo_stack' = save_undo_state(undo_stack, polygons_img, selected_polygon_ids)
    /\ polygons_img' = SelectSeq(polygons_img, LAMBDA poly : poly.id \notin selected_polygon_ids)
    /\ selected_polygon_ids' = {}
    /\ LET heap == DeleteFromGroups(patterns_list, group_patterns, selected_polygon_ids)
       IN  /\ group_patterns' = heap
           /\ patterns_list' = NonEmptyGroups(patterns_list, heap)
    /\ last_op' = "delete"
    /\ UNCHANGED notEditVars

\* keyPressEvent, an arrow key with patterns selected: the state is saved and
\* the selected unlocked polygons move.
keyPressEvent_Arrow ==
    /\ selected_polygon_ids # {}
    /\ undo_stack' = save_undo_state(undo_stack, polygons_img, selected_polygon_ids)
    /\ last_op' = IF \E k \in 1..Len(polygons_img) :
                        /\ polygons_img[k].id \in selected_polygon_ids
                        /\ ~polygons_img[k].locked
                  THEN "move" ELSE "move_refused"
    /\ UNCHANGED <<group_patterns, patterns_list, polygons_img, selected_polygon_ids>>
    /\ UNCHANGED notEditVars

\* keyPressEvent, Ctrl+Z: _undo restores the last snapshot and on_undo
\* rebuilds the groups and the list from the restored polygons.
keyPressEvent_Undo ==
    /\ undo_stack # <<>>
    /\ LET top == undo_stack[Len(undo_stack)]
       IN  /\ polygons_img' = top.polygons
           /\ selected_polygon_ids' = top.selected
           /\ group_patterns' = RestoreGroups(top.polygons, group_patterns)
           /\ patterns_list' = GroupsOfPolygons(top.polygons, {})
    /\ undo_stack' = SubSeq(undo_stack, 1, Len(undo_stack) - 1)
    /\ last_op' = "undo"
    /\ UNCHANGED notEditVars

\* ------------------------------------------------------ _create_xT_pattern
\* Depths are whole numbers of picometres; the minimal depth 1e-9 m is 1000.
MIN_DEPTH == 1000

PatternTypes == {"RectanglePattern", "LinePattern", "PolygonPattern", "CirclePattern",
                 "RegularCrossSectionPattern", "CleaningCrossSectionPattern",
                 "StreamPattern", "BitmapPattern", "Unknown"}

\* The create_* calls that are given depth=pattern.depth; create_stream is not.
TypesWithDepth == PatternTypes \ {"StreamPattern", "Unknown"}

DepthValues == (-MaxDepth..MaxDepth) \cup {MIN_DEPTH - 1, MIN_DEPTH, MIN_DEPTH + 1}

ClampedDepthKept(depth) == depth

ClampedDepth(depth) == IF depth <= 0 THEN MIN_DEPTH ELSE depth

\* What the call does: pattern.depth after it, the create_* call made (if
\* any) and the depth handed to it (if any).
create_xT_pattern(pattern_type, depth) ==
    [done          |-> TRUE,
     pattern_depth |-> ClampedDepth(depth),
     created       |-> IF pattern_type = "Unknown" THEN "None" ELSE pattern_type,
     with_depth    |-> pattern_type \in TypesWithDepth,
     depth         |-> IF pattern_type \in TypesWithDepth THEN ClampedDepth(depth) ELSE 0]

create_xT_pattern_call ==
    /\ ~call_result.done
    /\ call_args.function = "_create_xT_pattern"
    /\ call_result' = create_xT_pattern(call_args.pattern_type, call_args.depth)
    /\ UNCHANGED call_args
    /\ UNCHANGED notCallVars

\* ----------------------------------------------------------- relative_coords
\* Lengths are whole numbers of one unit; the fractions the function returns
\* are kept exact, as numerator and denominator.
Frac(n, d) == [n |-> n, d |-> d]
FracAdd(a, b) == [n |-> a.n * b.d + b.n * a.d, d |-> a.d * b.d]
FracSub(a, b) == [n |-> a.n * b.d - b.n * a.d, d |-> a.d * b.d]
FracLeq(a, b) == a.n * b.d <= b.n * a.d

NoArea == [present |-> FALSE, left |-> 0, top |-> 0, width |-> 0, height |-> 0]

NoRect == [done |-> TRUE, none |-> TRUE]

relative_coords_top_unflipped(tracking_area, fov_width, fov_height) ==
    IF ~tracking_area.present THEN NoRect
    ELSE [done   |-> TRUE,
          none   |-> FALSE,
          width  |-> Frac(tracking_area.width, fov_width),
          height |-> Frac(tracking_area.height, fov_height),
          left   |-> FracAdd(Frac(1, 2), Frac(tracking_area.left, fov_width)),
          top    |-> FracAdd(Frac(1, 2), Frac(tracking_area.top, fov_height))]

relative_coords(tracking_area, fov_width, fov_height) ==
    IF ~tracking_area.present THEN NoRect
    ELSE [done   |-> TRUE,
          none   |-> FALSE,
          width  |-> Frac(tracking_area.width, fov_width),
          height |-> Frac(tracking_area.height, fov_height),
          left   |-> FracAdd(Frac(1, 2), Frac(tracking_area.left, fov_width)),
          top    |-> FracSub(Frac(1, 2), Frac(tracking_area.top, fov_height))]

\* Tracking areas as _get_tracking_area_m gives them: left and top are the
\* left and the upper edge relative to the image centre, Y upwards; NoArea
\* stands for None.
TrackingAreas ==
    [present : {TRUE}, left : -MaxFov..MaxFov, top : -MaxFov..MaxFov,
     width : 0..MaxFov, height : 0..MaxFov]

relative_coords_call ==
    /\ ~call_result.done
    /\ call_args.function = "relative_coords"
    /\ call_result' = relative_coords(call_args.tracking_area, call_args.fov_width,
                                      call_args.fov_height)
    /\ UNCHANGED call_args
    /\ UNCHANGED notCallVars

\* ------------------------------------------------- coordinate conversions
\* Metric lengths are whole numbers of half a unit and a pixel measures an even
\* number of them, so that the image centre (img_w / 2, img_h / 2) and every
\* product below are whole numbers.
\* int() of the quotient n / d, d > 0: rounds towards zero.
Trunc(n, d) == IF n >= 0 THEN n \div d ELSE -((-n) \div d)

\* attach_xT_pattern, _load_pattern_file: the field of view handed to the
\* conversion is the image size times the pixel size.
FovOf(img_px, m_per_px) == img_px * m_per_px

\* pattern_to_image_coords.meters_to_pixels:
\*   img_x = int(center_px_x + x_m / m_per_px_x), img_y = int(center_px_y - y_m / m_per_px_y)
\* with m_per_px_x = fov_width / img_w, and center + q/m = (img * m + 2 q) / (2 m).
meters_to_pixels(x_m, y_m, img_w, img_h, fov_width, fov_height) ==
    LET m_per_px_x == fov_width \div img_w
        m_per_px_y == fov_height \div img_h
    IN  [x |-> Trunc(img_w * m_per_px_x + 2 * x_m, 2 * m_per_px_x),
         y |-> Trunc(img_h * m_per_px_y - 2 * y_m, 2 * m_per_px_y)]

\* _update_displayable_pattern_coords:
\*   x_m = (x_px - center_px_x) * m_per_px, y_m = (center_px_y - y_px) * m_per_px
pixels_to_meters_unflipped(x_px, y_px, img_w, img_h, m_per_px) ==
    [x |-> ((2 * x_px - img_w) * m_per_px) \div 2,
     y |-> ((2 * y_px - img_h) * m_per_px) \div 2]

pixels_to_meters(x_px, y_px, img_w, img_h, m_per_px) ==
    [x |-> ((2 * x_px - img_w) * m_per_px) \div 2,
     y |-> ((img_h - 2 * y_px) * m_per_px) \div 2]

\* A point is converted to a pixel when the patterns are loaded and the pixel
\* back to metres when the shape is updated.
round_trip_call ==
    /\ ~call_result.done
    /\ call_args.function = "round_trip"
    /\ LET a == call_args
           px == meters_to_pixels(a.x_m, a.y_m, a.img_w, a.img_h,
                                  FovOf(a.img_w, a.m_per_px), FovOf(a.img_h, a.m_per_px))
           m == pixels_to_meters(px.x, px.y, a.img_w, a.img_h, a.m_per_px)
       IN  call_result' = [done |-> TRUE, x_px |-> px.x, y_px |-> px.y, x_m |-> m.x, y_m |-> m.y]
    /\ UNCHANGED call_args
    /\ UNCHANGED notCallVars

\* ------------------------------------------------------------ specifications
\* The runs start from positions that have an image and patterns, all pending
\* and with a current set, in the lowest or the highest tier.
RunGroups ==
    [sequential_group : {0, MaxSeq}, npatterns : {MaxPatterns},
     milled_status : {"pending"}, delay : DelayValues, milling_current : {1}]

\* Only the equality of stage coordinates is ever used: a new position takes
\* the coordinates of an earlier one or the next unused value.
CanonicalCoords(ps) ==
    \A i \in 1..Len(ps) :
        \/ ps[i].coords = 1
        \/ \E k \in 1..(i - 1) : ps[i].coords <= ps[k].coords + 1

\* The task builder is given groups of every status, with and without patterns,
\* and positions with and without an image.
BuildGroups ==
    [sequential_group : {0, MaxSeq}, npatterns : {0, MaxPatterns},
     milled_status : Statuses, delay : {0}, milling_current : {1}]

InitRunVars ==
    /\ task_list = <<>>
    /\ task_idx = 0
    /\ pc = "idle"
    /\ milling_stopped = FALSE
    /\ patterns_locked = FALSE
    /\ controls_enabled = TRUE
    /\ saved_state = <<>>
    /\ run_result = "none"
    /\ runs = 0
    /\ hw_log = {}
    /\ step_failed = <<>>
    /\ stop_in_delay = 0
    /\ cancelled_busy = {}
    /\ stage_aligned_at = 0

InitAlignVars ==
    /\ a_pc = "idle"
    /\ a_matcher = "any"
    /\ a_reduced = FALSE
    /\ a_reset = FALSE
    /\ a_conf = 0
    /\ a_dist = 0
    /\ a_move_count = 0
    /\ a_captures = 0
    /\ a_corrections = 0
    /\ a_result = "none"
    /\ a_fault = FALSE
    /\ a_size_diff = 0
    /\ a_save_failed = FALSE
    /\ a_step_ops = <<>>

InitEditVars ==
    /\ group_patterns = <<>>
    /\ patterns_list = <<>>
    /\ polygons_img = <<>>
    /\ selected_polygon_ids = {}
    /\ undo_stack = <<>>
    /\ last_op = "none"

InitCallVars ==
    /\ call_args = [function |-> "none"]
    /\ call_result = [done |-> FALSE]

Init ==
    /\ PositionsIn(RunGroups, Coords, 1, MaxPositions, MaxTasks)
    /\ CanonicalCoords(positions)
    /\ InitRunVars
    /\ InitAlignVars
    /\ InitEditVars
    /\ InitCallVars

Next ==
    \/ Run
    \/ DialogReject
    \/ DialogAccept
    \/ ReadScanSettings
    \/ LoopTop
    \/ EnterDelay
    \/ AfterSleep
    \/ PrepareBeam
    \/ MoveStage
    \/ CoarseAlign
    \/ FineAlign
    \/ DoMilling
    \/ Cleanup
    \/ stop_milling

Spec == Init /\ [][Next]_vars

\* build_task_list on its own: run up to the dialog, which is then rejected.
InitBuild ==
    /\ PositionsIn(BuildGroups, {1}, 0, MaxPositions, MaxGroups)
    /\ InitRunVars
    /\ InitAlignVars
    /\ InitEditVars
    /\ InitCallVars

NextBuild ==
    \/ Run
    \/ DialogReject

SpecBuild == InitBuild /\ [][NextBuild]_vars

\* align on its own; every driver call returns or raises.
InitAlign ==
    /\ positions = <<>>
    /\ InitRunVars
    /\ InitAlignVars
    /\ InitEditVars
    /\ InitCallVars

NextAlign ==
    \/ AlignCall
    \/ AlignInit
    \/ FirstCapture
    \/ LoopStep
    \/ Recapture
    \/ AlignFinish
    \/ AlignReturn

SpecAlign == InitAlign /\ [][NextAlign]_vars /\ WF_vars(NextAlign)

\* A run on one position while the operator changes statuses.
OperatorGroups ==
    [sequential_group : {0}, npatterns : {MaxPatterns},
     milled_status : {"pending"}, delay : {0, MAX_DELAY_NO_HOME + 1}, milling_current : {1}]

InitOperator ==
    /\ PositionsIn(OperatorGroups, {1}, 1, 1, MaxTasks)
    /\ InitRunVars
    /\ InitAlignVars
    /\ InitEditVars
    /\ InitCallVars

NextOperator ==
    \/ Next
    \/ on_status_changed
    \/ mark_position_status

SpecOperator == InitOperator /\ [][NextOperator]_vars

\* The editor on its own: one position with an image, no run.
InitEdit ==
    /\ positions = <<[image |-> TRUE, coords |-> 1, patterns |-> <<>>]>>
    /\ InitRunVars
    /\ InitAlignVars
    /\ InitEditVars
    /\ InitCallVars

NextEdit ==
    \/ attach_pattern
    \/ on_item_clicked
    \/ mousePressEvent
    \/ keyPressEvent_Backspace
    \/ keyPressEvent_Arrow
    \/ keyPressEvent_Undo

SpecEdit == InitEdit /\ [][NextEdit]_vars

\* A run on one position with an image, shown in the image widget, while the
\* operator works on the widget and the position list.  During a run the
\* events of the operator are handled by the processEvents calls: the one
\* after the lock is taken and the one of every update_display.
Refreshing == pc \in {"setup", "loop", "delay"}

refresh_on_item_clicked == Refreshing /\ on_item_clicked

refresh_mousePressEvent == Refreshing /\ mousePressEvent

refresh_keyPressEvent_Backspace == Refreshing /\ keyPressEvent_Backspace

refresh_keyPressEvent_Arrow == Refreshing /\ keyPressEvent_Arrow

refresh_keyPressEvent_Undo == Refreshing /\ keyPressEvent_Undo

InitLock ==
    /\ PositionsIn(OperatorGroups, {1}, 1, 1, MaxTasks)
    /\ Len(positions) = 1
    /\ InitRunVars
    /\ InitAlignVars
    /\ InitCallVars
    /\ group_patterns = [j \in 1..Len(positions[1].patterns) |->
                            NewIds(positions[1].patterns[j].npatterns)]
    /\ patterns_list = [j \in 1..Len(positions[1].patterns) |-> j]
    /\ polygons_img = load_shapes(patterns_list, group_patterns, FALSE)
    /\ selected_polygon_ids = {}
    /\ undo_stack = <<>>
    /\ last_op = "none"

NextLock ==
    \/ Next
    \/ refresh_on_item_clicked
    \/ refresh_mousePressEvent
    \/ refresh_keyPressEvent_Backspace
    \/ refresh_keyPressEvent_Arrow
    \/ refresh_keyPressEvent_Undo

SpecLock == InitLock /\ [][NextLock]_vars

\* ------------------------------------- the currents and delays of the groups
SetCurrents(ps, i, S, c) ==
    [ps EXCEPT ![i].patterns =
        [j \in 1..Len(@) |-> IF j \in S THEN [@[j] EXCEPT !.milling_current = c] ELSE @[j]]]

\* MillingConfirmDialog._on_current_changed: the dropdown of a row writes the
\* chosen current into the PatternGroup of the task, and the Start button is
\* validated again.  The signal comes with a change of the index only.
on_current_changed ==
    /\ pc = "dialog"
    /\ \E row \in 1..Len(task_list), index \in available_currents :
         LET id == TaskGroup(task_list[row])
         IN  /\ index # Group(positions, id).milling_current
             /\ positions' = SetCurrents(positions, id[1], {id[2]}, index)
    /\ UNCHANGED <<task_list, task_idx, pc, milling_stopped, patterns_locked,
                   controls_enabled, saved_state, run_result, runs, hw_log,
                   step_failed, stop_in_delay, cancelled_busy, stage_aligned_at>>
    /\ UNCHANGED notRunVars

\* MillingConfirmDialog._on_delay_changed: the delay field of a row writes
\* its value (0 for an empty or malformed text) into the PatternGroup of the
\* task.
on_delay_changed ==
    /\ pc = "dialog"
    /\ \E row \in 1..Len(task_list), new_delay \in DelayValues :
         LET id == TaskGroup(task_list[row])
         IN  positions' = [positions EXCEPT ![id[1]].patterns[id[2]].delay = new_delay]
    /\ UNCHANGED <<task_list, task_idx, pc, milling_stopped, patterns_locked,
                   controls_enabled, saved_state, run_result, runs, hw_log,
                   step_failed, stop_in_delay, cancelled_busy, stage_aligned_at>>
    /\ UNCHANGED notRunVars

\* MainWindow._on_milling_current_changed: the dropdown of the group table
\* writes the chosen current into every selected PatternGroup of the shown
\* position; "(mixed)" changes nothing.  The table is not among the controls
\* _set_milling_controls_enabled disables; the modal dialog keeps the main
\* window from input, and during a run the events of the operator are handled
\* by the processEvents calls.
on_milling_current_changed ==
    /\ pc = "idle" \/ Refreshing
    /\ \E i \in 1..Len(positions) :
         \E S \in (SUBSET (1..Len(positions[i].patterns))) \ {{}} :
            LET mixed == \E j, k \in S : positions[i].patterns[j].milling_current
                                          # positions[i].patterns[k].milling_current
            IN  \E new_current \in available_currents, mixed_chosen \in BOOLEAN :
                    /\ mixed_chosen => mixed
                    /\ positions' = IF mixed_chosen THEN positions
                                    ELSE SetCurrents(positions, i, S, new_current)
    /\ UNCHANGED <<task_list, task_idx, pc, milling_stopped, patterns_locked,
                   controls_enabled, saved_state, run_result, runs, hw_log,
                   step_failed, stop_in_delay, cancelled_busy, stage_aligned_at>>
    /\ UNCHANGED notRunVars

\* A run on one position whose groups have any of the currents, "Not set"
\* included, with the dialog and the group table at the operator's hand.
DialogGroups ==
    [sequential_group : {0}, npatterns : {MaxPatterns},
     milled_status : {"pending"}, delay : {0}, milling_current : available_currents]

InitDialog ==
    /\ PositionsIn(DialogGroups, {1}, 1, 1, MaxTasks)
    /\ InitRunVars
    /\ InitAlignVars
    /\ InitEditVars
    /\ InitCallVars

NextDialog ==
    \/ Next
    \/ on_current_changed
    \/ on_delay_changed
    \/ on_milling_current_changed

SpecDialog == InitDialog /\ [][NextDialog]_vars

\* _create_xT_pattern on every pattern type and depth.
InitCreate ==
    /\ positions = <<>>
    /\ InitRunVars
    /\ InitAlignVars
    /\ InitEditVars
    /\ \E pattern_type \in PatternTypes, depth \in DepthValues :
         call_args = [function |-> "_create_xT_pattern", pattern_type |-> pattern_type,
                      depth |-> depth]
    /\ call_result = [done |-> FALSE]

NextCreate == create_xT_pattern_call

SpecCreate == InitCreate /\ [][NextCreate]_vars

\* relative_coords on every tracking area and field of view, and on None.
InitRelative ==
    /\ positions = <<>>
    /\ InitRunVars
    /\ InitAlignVars
    /\ InitEditVars
    /\ \E tracking_area \in TrackingAreas \cup {NoArea}, fov_width \in 1..MaxFov,
          fov_height \in 1..MaxFov :
         call_args = [function |-> "relative_coords", tracking_area |-> tracking_area,
                      fov_width |-> fov_width, fov_height |-> fov_height]
    /\ call_result = [done |-> FALSE]

NextRelative == relative_coords_call

SpecRelative == InitRelative /\ [][NextRelative]_vars

\* The round trip of a point, inside the field of view and around it.
InitRoundTrip ==
    /\ positions = <<>>
    /\ InitRunVars
    /\ InitAlignVars
    /\ InitEditVars
    /\ \E img_w \in 1..MaxImage, img_h \in 1..MaxImage, scale \in 1..MaxScale :
         \E x_m \in -(img_w * scale + 2)..(img_w * scale + 2),
            y_m \in -(img_h * scale + 2)..(img_h * scale + 2) :
             call_args = [function |-> "round_trip", img_w |-> img_w, img_h |-> img_h,
                          m_per_px |-> 2 * scale, x_m |-> x_m, y_m |-> y_m]
    /\ call_result = [done |-> FALSE]

NextRoundTrip == round_trip_call

SpecRoundTrip == InitRoundTrip /\ [][NextRoundTrip]_vars

\* ------------------------------------------------------------------ claims
StatusOf(ps, id) == Group(ps, id).milled_status
TaskStatus(k) == StatusOf(positions, TaskGroup(task_list[k]))
TasksOf(id) == { k \in 1..Len(task_list) : TaskGroup(task_list[k]) = id }
Built == runs > 0 /\ run_result # "raised_build"

\* C1: when a run without cancellation has gone through the whole task list,
\* every task whose stage move, coarse alignment, fine alignment or milling
\* reported failure is failed and every other task is done: a failure stops
\* neither the loop nor a later task.
C1_FailureIsolation ==
    (pc = "idle" /\ run_result = "complete" /\ ~milling_stopped) =>
        \A k \in 1..Len(task_list) :
            TaskStatus(k) = IF step_failed[k] THEN "failed" ELSE "done"

C1_Witness ==
    /\ pc = "idle" /\ run_result = "complete" /\ ~milling_stopped
    /\ Len(task_list) >= 2
    /\ step_failed[1] /\ TaskStatus(1) = "failed"
    /\ ~step_failed[2] /\ TaskStatus(2) = "done"

\* C2: the task list is ordered by sequential group first and by position
\* second.
C2_TaskOrder ==
    \A a, b \in 1..Len(task_list) :
        a < b =>
            \/ task_list[a].sequential_group < task_list[b].sequential_group
            \/ /\ task_list[a].sequential_group = task_list[b].sequential_group
               /\ task_list[a].position_index <= task_list[b].position_index

C2_Witness ==
    /\ pc = "dialog"
    /\ Len(task_list) = 3
    /\ task_list[1].position_index = 1 /\ task_list[1].sequential_group = 0
    /\ task_list[2].position_index = 2 /\ task_list[2].sequential_group = 0
    /\ task_list[3].position_index = 1 /\ task_list[3].sequential_group = MaxSeq

\* C3: the built list holds exactly one task for every group that is pending
\* and has patterns, and none for any other group.
C3_PendingFilter ==
    Built =>
        \A id \in GroupIds(positions) :
            Cardinality(TasksOf(id)) =
                IF StatusOf(positions, id) = "pending" /\ Group(positions, id).npatterns # 0
                THEN 1 ELSE 0

C3_Witness ==
    /\ pc = "dialog"
    /\ Len(task_list) = 1
    /\ \E id \in GroupIds(positions) :
         StatusOf(positions, id) \in {"done", "failed", "busy"} /\ Group(positions, id).npatterns # 0
    /\ \E id \in GroupIds(positions) :
         StatusOf(positions, id) = "pending" /\ Group(positions, id).npatterns = 0

\* C4: with a matcher that always reports confidence 0.0 and a driver that
\* never fails, align returns False after exactly 5 captures.
C4_ZeroConfidenceFails ==
    (a_pc = "returned" /\ a_matcher = "zero" /\ ~a_fault) =>
        (a_result = "false" /\ a_captures = 5)

\* C5: one call of align issues at most 5 corrections, and a call whose driver
\* calls all return does return.
C5_AlignTerminates ==
    /\ [](a_corrections <= 5)
    /\ (a_pc = "init") ~> (a_pc = "returned")

C5_Witness ==
    a_pc = "returned" /\ a_corrections = 5

\* C6: once the stop flag has been set during a task's delay sleep, the run
\* stays at that task and issues no stage move, alignment or milling; the
\* task's group ends failed and the groups of the later tasks stay pending.
C6_CancelInDelay ==
    stop_in_delay # 0 =>
        /\ task_idx = stop_in_delay
        /\ pc \in {"sleeping", "cleanup", "idle"}
        /\ hw_log \subseteq {"sleep_mode"}
        /\ pc # "sleeping" => TaskStatus(stop_in_delay) = "failed"
        /\ \A k \in 1..Len(task_list) : k > stop_in_delay => TaskStatus(k) = "pending"

C6_Witness ==
    /\ stop_in_delay # 0
    /\ pc = "idle"
    /\ Len(task_list) > stop_in_delay
    /\ TaskStatus(stop_in_delay) = "failed"

AllowedStep(a, b) ==
    a # b => <<a, b>> \in {<<"pending", "busy">>, <<"busy", "done">>, <<"busy", "failed">>}

\* C7 as stated: every change of a milled_status is pending -> busy,
\* busy -> done or busy -> failed.
C7_StatusMonotonic ==
    [][\A id \in GroupIds(positions) :
         AllowedStep(StatusOf(positions, id), StatusOf(positions', id))]_vars

\* C7 amended: the same, except that the stop check at the head of an iteration
\* takes the current task's group from pending to failed.
C7_StatusMonotonicButBoundary ==
    [][\A id \in GroupIds(positions) :
         \/ AllowedStep(StatusOf(positions, id), StatusOf(positions', id))
         \/ /\ pc = "loop" /\ milling_stopped /\ task_idx <= Len(task_list)
            /\ id = CurGroup
            /\ StatusOf(positions, id) = "pending"
            /\ StatusOf(positions', id) = "failed"]_vars

C7_Witness ==
    /\ pc = "cleanup" /\ run_result = "running"
    /\ task_idx \in 1..Len(task_list)
    /\ TaskStatus(task_idx) = "failed"
    /\ [group |-> CurGroup, run |-> runs] \notin cancelled_busy

\* C8: whenever run is left after the lock was taken, the patterns are
\* unlocked, the controls enabled and the final state saved.
C8_CleanupOnEveryExit ==
    (pc = "idle" /\ run_result \in {"raised_setup", "raised_loop", "complete"}) =>
        (~patterns_locked /\ controls_enabled /\ saved_state = positions)

\* C9 as stated: a group that was busy when cancellation was acted upon is in
\* the task list that a later run builds.
C9_CancelledTaskRetried ==
    \A c \in cancelled_busy :
        runs > c.run => TasksOf(c.group) # {}

\* C9 amended: such a group is marked failed, and while it is failed no later
\* run has it in its task list.
C9_CancelledTaskNotRetried ==
    \A c \in cancelled_busy :
        /\ runs = c.run => StatusOf(positions, c.group) = "failed"
        /\ (runs > c.run /\ StatusOf(positions, c.group) = "failed") => TasksOf(c.group) = {}

C9_Witness ==
    /\ pc = "dialog"
    /\ \E c \in cancelled_busy :
         runs > c.run /\ StatusOf(positions, c.group) = "failed" /\ TasksOf(c.group) = {}

\* C10: with no patterns on any position, run reports that there are no
\* pending tasks and changes nothing.
C10_EmptyRunIsNoOp ==
    (runs > 0 /\ \A i \in 1..Len(positions) : positions[i].patterns = <<>>) =>
        /\ run_result = "no_tasks"
        /\ pc = "idle"
        /\ ~patterns_locked
        /\ controls_enabled
        /\ hw_log = {}

\* C11: once a delete or an undo has completed, the pattern-group list of the
\* position holds no PatternGroup with an empty pattern mapping.
C11_NoEmptyGroupListed ==
    last_op \in {"delete", "undo"} =>
        \A k \in 1..Len(patterns_list) : group_patterns[patterns_list[k]] # {}

\* C12: a PatternGroup becomes busy only by the step of run that starts its
\* task; no operator action writes busy.
C12_BusyOnlyByRun ==
    [][\A id \in GroupIds(positions) :
          (StatusOf(positions', id) = "busy" /\ StatusOf(positions, id) # "busy") =>
              /\ pc = "loop" /\ pc' = "delay"
              /\ id = CurGroup]_vars

C12_Witness ==
    /\ pc = "delay"
    /\ StatusOf(positions, CurGroup) = "done"

\* C13: every pattern that _create_xT_pattern hands to the device with a depth
\* has a depth above 0, and a depth of 0 or less has become the minimum.
C13_DepthClamped ==
    (call_args.function = "_create_xT_pattern" /\ call_result.done) =>
        /\ call_result.with_depth => call_result.depth > 0
        /\ (call_result.with_depth /\ call_args.depth <= 0) => call_result.depth = MIN_DEPTH

C13_Witness ==
    /\ call_args.function = "_create_xT_pattern"
    /\ call_args.pattern_type = "CirclePattern"
    /\ call_args.depth < 0
    /\ call_result.done
    /\ call_result.depth = MIN_DEPTH

\* C14: for a tracking area fully inside the field of view, left, top,
\* left+width and top+height of the fractional rectangle are all within [0,1];
\* for no tracking area the result is None.
InsideFov(ta, fov_width, fov_height) ==
    /\ -fov_width <= 2 * ta.left
    /\ 2 * (ta.left + ta.width) <= fov_width
    /\ 2 * ta.top <= fov_height
    /\ -fov_height <= 2 * (ta.top - ta.height)

InUnit(f) == FracLeq(Frac(0, 1), f) /\ FracLeq(f, Frac(1, 1))

C14_RelativeInUnit ==
    (call_args.function = "relative_coords" /\ call_result.done) =>
        IF ~call_args.tracking_area.present THEN call_result.none
        ELSE InsideFov(call_args.tracking_area, call_args.fov_width, call_args.fov_height) =>
                /\ ~call_result.none
                /\ InUnit(call_result.left)
                /\ InUnit(call_result.top)
                /\ InUnit(FracAdd(call_result.left, call_result.width))
                /\ InUnit(FracAdd(call_result.top, call_result.height))

C14_Witness ==
    /\ call_args.function = "relative_coords"
    /\ call_result.done
    /\ call_args.tracking_area.present
    /\ InsideFov(call_args.tracking_area, call_args.fov_width, call_args.fov_height)
    /\ call_args.tracking_area.top > 0
    /\ call_args.tracking_area.height > 0
    /\ call_args.tracking_area.left < 0
    /\ FracLeq(Frac(1, 1), FracAdd(call_result.top, call_result.height))

\* C15: a metric point inside the field of view, converted to pixel
\* coordinates and back, is within one pixel of the original on each axis.
InsideImage(a) ==
    /\ -FovOf(a.img_w, a.m_per_px) <= 2 * a.x_m /\ 2 * a.x_m <= FovOf(a.img_w, a.m_per_px)
    /\ -FovOf(a.img_h, a.m_per_px) <= 2 * a.y_m /\ 2 * a.y_m <= FovOf(a.img_h, a.m_per_px)

Abs(v) == IF v >= 0 THEN v ELSE -v

C15_RoundTripWithinPixel ==
    (call_args.function = "round_trip" /\ call_result.done /\ InsideImage(call_args)) =>
        /\ Abs(call_result.x_m - call_args.x_m) <= call_args.m_per_px
        /\ Abs(call_result.y_m - call_args.y_m) <= call_args.m_per_px

C15_Witness ==
    /\ call_args.function = "round_trip"
    /\ call_result.done
    /\ InsideImage(call_args)
    /\ call_args.x_m < 0 /\ call_args.y_m > 0
    /\ call_result.x_m # call_args.x_m
    /\ call_result.y_m # call_args.y_m
    /\ call_result.x_px > 0 /\ call_result.y_px > 0

\* C16: for every task, do_milling is invoked only after the task's fine
\* alignment returned success; a group is marked done only by the task's
\* do_milling having returned success with the stop flag not set; and when the
\* run leaves a started task, other than by an exception, in any other way,
\* the task's group is failed.
Started == {"delay", "sleeping", "prepare", "move", "coarse", "fine", "mill"}

FullAlignmentNeeded ==
    \/ task_idx = 1
    \/ task_list[task_idx - 1].coords # CurTask.coords
    \/ ~task_list[task_idx - 1].move_successful

C17_MoveAndCoarseWhenNeeded ==
    /\ [](pc \in {"move", "coarse"} => FullAlignmentNeeded)
    /\ [](pc \in {"fine", "mill"} =>
            IF FullAlignmentNeeded
            THEN {"move", "align_coarse"} \subseteq hw_log
            ELSE hw_log \cap {"move", "align_coarse"} = {})
    /\ [][(pc = "prepare" /\ pc' \notin {"prepare", "cleanup"}) =>
            pc' = IF FullAlignmentNeeded THEN "move" ELSE "fine"]_vars

C17_Witness ==
    /\ pc = "fine"
    /\ task_idx = 2
    /\ task_list[1].coords = task_list[2].coords
    /\ task_list[1].move_successful
    /\ hw_log = {}

\* C18: when the stop flag is found set at the head of an iteration, the
\* current task's group is marked failed and the loop is left; the group of
\* every later task keeps its milled_status, which is pending.
C18_BoundaryCancel ==
    [][(pc = "loop" /\ task_idx <= Len(task_list) /\ milling_stopped) =>
          /\ pc' = "cleanup"
          /\ StatusOf(positions', CurGroup) = "failed"
          /\ \A id \in GroupIds(positions) \ {CurGroup} :
                StatusOf(positions', id) = StatusOf(positions, id)
          /\ \A k \in (task_idx + 1)..Len(task_list) : TaskStatus(k)' = "pending"]_vars

C18_Witness ==
    /\ pc = "cleanup"
    /\ run_result = "running"
    /\ milling_stopped
    /\ task_idx = 1
    /\ Len(task_list) = 2
    /\ hw_log = {}
    /\ cancelled_busy = {}
    /\ TaskStatus(1) = "failed"
    /\ TaskStatus(2) = "pending"

\* C19: the stop flag is checked before the delay sleep as well as after it:
\* when the flag is already set as a task with delay > 0 reaches its delay
\* step, the task's group is marked failed and the loop is left, with no sleep
\* and no sleep mode.
C19_CancelBeforeDelay ==
    [][(pc = "delay" /\ milling_stopped /\ Group(positions, CurGroup).delay > 0) =>
          /\ pc' = "cleanup"
          /\ StatusOf(positions', CurGroup) = "failed"
          /\ hw_log' = hw_log]_vars

\* C20: from the lock taken before the loop up to the cleanup phase, the
\* patterns stay locked and no operator event handled during a refresh of the
\* display moves or deletes a pattern or changes the number of positions.
AfterLock == pc \in {"setup", "loop", "delay", "sleeping", "prepare", "move", "coarse",
                     "fine", "mill"}

PolygonIds(polys) == { <<polys[k].pattern_group, polys[k].id>> : k \in 1..Len(polys) }

C20_EditingLockedDuringRun ==
    /\ [](AfterLock => \A k \in 1..Len(polygons_img) : polygons_img[k].locked)
    /\ [][AfterLock =>
            /\ group_patterns' = group_patterns
            /\ patterns_list' = patterns_list
            /\ PolygonIds(polygons_img') = PolygonIds(polygons_img)
            /\ ~(last_op' = "move" /\ undo_stack' # undo_stack)
            /\ Len(positions') = Len(positions)]_vars

\* C21: at every capture of a call of align, the first and each one after a
\* correction, a live image that differs from the reference by more than one
\* pixel makes align return failure, with no stage move or beam shift after it.
C21_SizeMismatchAborts ==
    /\ [](a_size_diff > 1 => (a_pc \in {"returned", "idle"} /\ a_result = "false"))
    /\ [][a_size_diff > 1 => a_corrections' = a_corrections]_vars

\* C22: a pass of the loop body issues exactly one correction: for a residual
\* above 10 micrometres a relative stage move and then a reset of the beam
\* shift, otherwise an increment of the beam shift and no reset; a residual
\* below the minimum alignment distance issues nothing and ends the loop.
LoopBodyPassed ==
    /\ a_pc = "loop"
    /\ a_conf < CONFIDENCE_THRESHOLD /\ a_move_count < MAX_MOVE_COUNT
    /\ a_pc' # "loop"
    /\ ~a_fault'

C22_OneCorrectionPerStep ==
    [][LoopBodyPassed =>
         IF a_dist < MIN_ALIGNMENT_DISTANCE
         THEN /\ a_pc' = "finish"
              /\ a_step_ops' = <<>>
              /\ a_corrections' = a_corrections
         ELSE /\ a_pc' = "recapture"
              /\ a_corrections' = a_corrections + 1
              /\ a_step_ops' = IF a_dist > STAGE_MOVE_DISTANCE
                               THEN <<"relative_move", "beam_shift_reset">>
                               ELSE <<"beam_shift_add">>]_vars

C22_Witness ==
    /\ a_pc = "recapture"
    /\ a_dist = STAGE_MOVE_DISTANCE
    /\ a_step_ops = <<"beam_shift_add">>
    /\ a_corrections = 2

\* C23: a failure to save a captured image does not abort the alignment: the
\* call goes on with the correlation and the corrections as after a save
\* that succeeded.
C23_SaveFailureGoesOn ==
    [][(a_save_failed' /\ ~a_save_failed) =>
          (a_pc' = "loop" /\ ~a_fault' /\ a_result' = a_result)]_vars

\* C24: the fine alignment and the milling of a task take place only when a
\* coarse alignment has succeeded at the task's coordinates since the stage
\* was last moved there; a task that follows a failed coarse alignment at the
\* same coordinates does not skip the move and the coarse alignment.  (The
\* stage homed by the sleep mode is the subject of C25.)
C24_FineOnlyAfterCoarse ==
    (pc \in {"fine", "mill"} /\ "sleep_mode" \notin hw_log) =>
        stage_aligned_at = CurTask.coords

\* C25: after the delay of a task has put the instrument into sleep mode
\* (stage homed, beams off), the stage is moved back to the task's coordinates
\* and a coarse alignment is run before the task's fine alignment and milling,
\* whatever the previous task's coordinates and move were.
C25_MoveBackAfterSleepMode ==
    (pc \in {"fine", "mill"} /\ "sleep_mode" \in hw_log) =>
        {"move", "align_coarse_ok"} \subseteq hw_log

\* C26: when run has ended, after all tasks, after a cancellation or after a
\* step of the loop raised, no PatternGroup has the milled_status busy.
C26_NoBusyAfterRun ==
    (pc = "idle" /\ run_result \in {"complete", "raised_loop"}) =>
        \A id \in GroupIds(positions) : StatusOf(positions, id) # "busy"

\* C27: a Backspace after a press that left exactly one id selected (a click
\* on one pattern of one group) removes that pattern only: at most one
\* PatternGroup of the position has another pattern mapping after the delete.
C27_DeleteLeavesOtherGroups ==
    [][(/\ last_op = "press"
        /\ Cardinality(selected_polygon_ids) = 1
        /\ last_op' = "delete")
       => Cardinality({ g \in DOMAIN group_patterns :
                          group_patterns'[g] # group_patterns[g] }) <= 1]_vars

\* The ids a list of polygons shows for group g.
ShownIds(polys, g) ==
    { polys[k].id : k \in { k \in 1..Len(polys) : polys[k].pattern_group = g } }

\* C28: an undo that follows a delete restores the groups shown before the
\* delete (the polygons of the snapshot the delete saved): each of them is in
\* the list again and its pattern ids are the ids it had.
C28_UndoRestoresDelete ==
    [][(last_op = "delete" /\ last_op' = "undo")
       => LET before == undo_stack[Len(undo_stack)].polygons
          IN  \A g \in DOMAIN group_patterns :
                  ShownIds(before, g) # {}
                  => /\ g \in ListedGroups(patterns_list')
                     /\ group_patterns'[g] = ShownIds(before, g)]_vars

\* C29: when the confirmation dialog is cancelled, every PatternGroup is as
\* run's save_state wrote it just before the dialog opened (milling_current,
\* delay and milled_status alike) and no hardware action has been issued.
C29_CancelKeepsGroups ==
    [][(pc = "dialog" /\ pc' = "idle")
       => (positions' = saved_state /\ hw_log' = {})]_vars

\* C30: the dialog is accepted only when the group of every task has a current
\* set, and the group of the task has a current other than 0 whenever run is
\* about to call its fine alignment or its milling.
C30_CurrentSetWhenMilling ==
    /\ [][(pc = "dialog" /\ pc' = "setup")
          => \A k \in 1..Len(task_list) :
                 Group(positions, TaskGroup(task_list[k])).milling_current # NOT_SET]_vars
    /\ [](pc \in {"fine", "mill"} => Group(positions, CurGroup).milling_current # NOT_SET)

====
